---- MODULE Spec2Model ----
(***************************************************************************)
(* simple-rpc: Router / Procedure dispatch (rpc.ts), RPCError              *)
(* (rpc-error.ts) and the HTTP server around them (server.ts).  The model  *)
(* follows Router.call, Router.use, Procedure.call and the request         *)
(* callback of startRpcServer statement by statement.  Middleware and      *)
(* handlers are user code; a small family of representative behaviours     *)
(* stands for them.                                                        *)
(***************************************************************************)
EXTENDS Naturals, Sequences, FiniteSets, TLC

VARIABLES
  middlewares,  \* node -> its stored list (Router.middlewares, Procedure.middlewares)
  registered,   \* node -> what construction and use() put on it, in order
  visited,      \* the nodes some Router.call has passed through
  issued,       \* NoRequest, the one request issued so far, or Mixed
  calls,        \* caller -> the Router.call it awaits
  ncalls,       \* dispatches so far
  nuse,         \* use() registrations so far
  last,         \* what the latest finished call ran
  http          \* caller -> the HTTP response the server gave its request

vars ==
  <<middlewares, registered, visited, issued, calls, ncalls, nuse, last, http>>

(* ------------------------------ bounds -------------------------------- *)

\* total number of Router.call dispatches in one behaviour
MaxCalls == 2

\* number of Router.use registrations made after the tree is set up
MaxUse == 1

\* the callers of Router.call, each awaiting at most one promise
Callers == {"c1", "c2"}

\* the callers of a host that issues one call at a time
Sequential == {"c1"}

(* --------------------------- the route tree --------------------------- *)

Routers == {"api", "v1", "users", "admin"}

Procs == {"getUser", "echo"}

Nodes == Routers \cup Procs

\* Router.routes of every router (the record handed to createRouter);
\* getUser is attached under two parents, users and admin
routes ==
  [r \in Routers |->
     CASE r = "api"   -> [v1 |-> "v1", admin |-> "admin", echo |-> "echo"]
       [] r = "v1"    -> [users |-> "users"]
       [] r = "users" -> [get |-> "getUser"]
       [] r = "admin" -> [get |-> "getUser"]]

\* property names every plain object inherits from Object.prototype: a
\* lookup routes[name] yields a truthy value that is neither a Procedure
\* nor a Router
ObjectPrototypeKeys == {"constructor", "toString"}

(* ----------------------- middleware and handlers ---------------------- *)

\* "pass":  ...; return next()
\* "short": returns a value of its own, never calls next()
\* "throw": throw new RPCError(...) before next()
MwKind ==
  [A |-> "pass", B |-> "pass", C |-> "pass", D |-> "pass", E |-> "pass",
   S |-> "short", N |-> "short", T |-> "throw"]

Mws == DOMAIN MwKind

\* what a middleware does with the response sink before anything else:
\* res.status?.(code), res.setHeader(key, value), or nothing
MwSink ==
  [A |-> "none", B |-> "none", C |-> "none", D |-> "none", E |-> "status",
   S |-> "none", N |-> "none", T |-> "none"]

\* the middleware that write to the context (ctx.user = ...)
CtxWriters == {"A", "D"}

\* the value a short-circuiting middleware returns
MwReturn == [S |-> "cached", N |-> "malformed"]

\* the middleware each router of the application registers with use()
Usable ==
  [r \in Routers |->
     CASE r = "api"   -> {"A", "T"}
       [] r = "v1"    -> {}
       [] r = "users" -> {"S", "N"}
       [] r = "admin" -> {}]

\* The middleware lists the application's module builds its tree with:
\* createRouter(routes) leaves a router's list empty and
\* new Procedure(input, output, fn, middlewares = []) takes the procedure's;
\* the chained createRouter({...}).use(mw) of the README adds the routers'.
Bare == [n \in Nodes |-> <<>>]

Layered ==
  [n \in Nodes |->
     CASE n = "api"     -> <<"A">>
       [] n = "v1"      -> <<"B">>
       [] n = "users"   -> <<"C">>
       [] n = "admin"   -> <<"E">>
       [] n = "getUser" -> <<"D">>
       [] n = "echo"    -> <<>>]

Setups == {Bare, Layered}

(* ------------------------------ RPCError ------------------------------ *)

NoPath == <<>>

RPCError(code, message, path, payload) ==
  [kind |-> "RPCError", code |-> code, message |-> message,
   path |-> path, payload |-> payload]

\* a core that wraps a validation failure into its tagged error
ZodErrorTagged(which) == RPCError(400, which, NoPath, "issues")

\* the schema capability's own failure (ZodError): not an RPCError
ZodError(which) ==
  [kind |-> "ZodError", code |-> 0, message |-> which,
   path |-> NoPath, payload |-> "issues"]

NoError ==
  [kind |-> "none", code |-> 0, message |-> "", path |-> NoPath,
   payload |-> ""]

MwError == [T |-> RPCError(401, "Authentication required", NoPath, "none")]

\* what node:http throws when setHeader or writeHead follows a writeHead
\* (ERR_HTTP_HEADERS_SENT): an Error, not an RPCError
HeadersSent ==
  [kind |-> "Error", code |-> 0, message |-> "ERR_HTTP_HEADERS_SENT",
   path |-> NoPath, payload |-> "none"]

(* ------------------------------ schemas ------------------------------- *)

RawInputs == {"hello", "hello+extra", "missing", "weird", "bad"}

\* inputSchema.parse: unknown keys are stripped, a nonconforming value throws
InputAccepts(v) == v \in {"hello", "hello+extra", "missing", "weird"}

InputParse(v) == IF v = "hello+extra" THEN "hello" ELSE v

\* the handler fn of each procedure, as a function of the parsed input
HandlerThrows(p, input) == p = "getUser" /\ input = "missing"

HandlerError(p, input) == RPCError(404, "User not found", NoPath, input)

HandlerReturn(p, input) ==
  IF p = "echo" THEN "Echo: " \o input
  ELSE IF input = "weird" THEN "malformed"
  ELSE "user+password"

\* what the handler does with the response sink before it returns or throws
HandlerSink(p, input) ==
  IF p = "echo" \/ input = "weird" THEN "setHeader" ELSE "none"

\* outputSchema.parse
OutputAccepts(v) == v # "malformed"

OutputParse(v) == IF v = "user+password" THEN "user" ELSE v

(* ------------------------------- strings ------------------------------ *)

\* A string is a sequence of tokens: names, and the delimiters "." and "/".

\* String.prototype.split(sep)
RECURSIVE SplitOn(_, _)
SplitOn(s, sep) ==
  IF \A i \in DOMAIN s : s[i] # sep THEN <<s>>
  ELSE LET i == CHOOSE j \in DOMAIN s :
                  s[j] = sep /\ \A l \in 1..(j - 1) : s[l] # sep
       IN  <<SubSeq(s, 1, i - 1)>> \o SplitOn(SubSeq(s, i + 1, Len(s)), sep)

\* Array.prototype.join(sep)
RECURSIVE JoinWith(_, _)
JoinWith(parts, sep) ==
  IF parts = <<>> THEN <<>>
  ELSE IF Len(parts) = 1 THEN parts[1]
  ELSE parts[1] \o <<sep>> \o JoinWith(Tail(parts), sep)

\* the property name a string is: a single name, the empty string, or a
\* longer string, which names no route of the tree
KeyOf(s) ==
  IF s = <<>> THEN "" ELSE IF Len(s) = 1 THEN s[1] ELSE "compound"

\* the string of a property name
TextOf(name) == IF name = "" THEN <<>> ELSE <<name>>

Texts(names) == [i \in DOMAIN names |-> TextOf(names[i])]

\* the two forms of the path argument of Router.call
ArrayPath(segs) == [form |-> "array", segs |-> segs, text |-> <<>>]

StringPath(text) == [form |-> "string", segs |-> <<>>, text |-> text]

\* a dispatcher that takes a string path for one segment
PartsUnsplit(path) ==
  IF path.form = "array" THEN path.segs ELSE <<KeyOf(path.text)>>

\* const parts = Array.isArray(path) ? path : path.split(".")
Parts(path) ==
  IF path.form = "array" THEN path.segs
  ELSE LET segs == SplitOn(path.text, ".")
       IN  [i \in DOMAIN segs |-> KeyOf(segs[i])]

\* parts.join(".")
Joined(parts) == JoinWith(Texts(parts), ".")

(* ------------------------------ Router.call --------------------------- *)

\* const [first, ...rest] = parts
First(parts) == IF parts = <<>> THEN "undefined" ELSE Head(parts)

Rest(parts) == IF parts = <<>> THEN <<>> ELSE Tail(parts)

\* this.routes[first]
Lookup(r, first) ==
  IF first \in DOMAIN routes[r] THEN routes[r][first]
  ELSE IF first \in ObjectPrototypeKeys THEN "inherited"
  ELSE "undefined"

\* if (!target)
Found(target) == target # "undefined"

\* a dispatcher that never looks at the residual segments
HasRestIgnored(rest) == FALSE

\* if (rest.length > 0)
HasRest(rest) == Len(rest) > 0

\* a merge that puts the parent's list behind the child's (push for unshift)
MergeBehind(m, r, target) == [m EXCEPT ![target] = m[target] \o m[r]]

\* target.middlewares = [...this.middlewares, ...target.middlewares]
\* target.middlewares.unshift(...this.middlewares)
Merge(m, r, target) == [m EXCEPT ![target] = m[r] \o m[target]]

\* The synchronous descent of Router.call from router r over parts with the
\* stored lists m: the lists it leaves behind, the nodes it passed, and
\* either the procedure it reached or the RPCError it threw.
RECURSIVE RouterCall(_, _, _, _)
RouterCall(r, parts, m, seen) ==
  LET first  == First(parts)
      rest   == Rest(parts)
      target == Lookup(r, first)
  IN  IF ~Found(target)
      THEN [mws |-> m, seen |-> seen \cup {r}, proc |-> "none",
            err |-> RPCError(404, "not found", Joined(parts), "none")]
      ELSE IF target \in Procs
      THEN IF HasRest(rest)
           THEN [mws |-> m, seen |-> seen \cup {r}, proc |-> "none",
                 err |-> RPCError(400, "is not callable", Joined(parts), "none")]
           ELSE [mws |-> Merge(m, r, target), seen |-> seen \cup {r, target},
                 proc |-> target, err |-> NoError]
      ELSE IF target \in Routers
      THEN RouterCall(target, rest, Merge(m, r, target), seen \cup {r})
      ELSE [mws |-> m, seen |-> seen \cup {r}, proc |-> "none",
            err |-> RPCError(400, "Invalid route", TextOf(first), "none")]

(* ------------------------- what a call should run --------------------- *)

\* own routes only: the nodes a path names, without Object.prototype
RECURSIVE PathNodes(_, _)
PathNodes(r, parts) ==
  IF parts = <<>> \/ Head(parts) \notin DOMAIN routes[r] THEN <<r>>
  ELSE LET t == routes[r][Head(parts)]
       IN  IF t \in Procs THEN <<r, t>>
           ELSE <<r>> \o PathNodes(t, Tail(parts))

RECURSIVE Concat(_, _)
Concat(ns, reg) ==
  IF ns = <<>> THEN <<>> ELSE reg[Head(ns)] \o Concat(Tail(ns), reg)

\* the registered middleware along the path, outer to inner
PathChain(r, parts, reg) == Concat(PathNodes(r, parts), reg)

(* ------------------------------- state -------------------------------- *)

\* no call has finished yet
NoRun == [proc |-> "none", ran |-> 0, whole |-> FALSE]

Idle ==
  [st |-> "idle", who |-> "none", entry |-> "none", path |-> <<>>,
   form |-> "array", sink |-> "plain", head |-> FALSE, used |-> FALSE,
   proc |-> "none", raw |-> "none", input |-> "none", ctx |-> {},
   ctxlog |-> <<>>, chain |-> <<>>, pos |-> 0, log |-> <<>>,
   expected |-> <<>>, outer |-> <<>>, fresh |-> FALSE, nth |-> 0,
   ret |-> "none", err |-> NoError, value |-> "none"]

\* the dispatches callers issue with a pre-split path: (router the call
\* enters at, segments)
Requests ==
  {<<"api", <<"v1", "users", "get">>>>,
   <<"api", <<"admin", "get">>>>,
   <<"api", <<"echo">>>>,
   <<"users", <<"get">>>>,
   <<"api", <<"nope">>>>,
   <<"api", <<"v1", "nope">>>>,
   <<"api", <<"v1", "users">>>>,
   <<"api", <<"echo", "get">>>>,
   <<"api", <<"constructor">>>>}

\* the dispatches callers issue with a delimited string:
\* "v1.users.get", "echo" and ""
StringRequests ==
  {<<"api", <<"v1", ".", "users", ".", "get">>>>,
   <<"api", <<"echo">>>>,
   <<"api", <<>>>>}

\* values of issued besides a request
NoRequest == <<>>

Mixed == <<"mixed">>

\* no request of the caller has been answered or refused yet
NoResponse ==
  [stage |-> "idle", method |-> "", url |-> <<>>, dispatched |-> FALSE,
   outcome |-> "none", cause |-> NoError, ended |-> FALSE, status |-> 0,
   kind |-> "none", value |-> "none", code |-> 0, message |-> "",
   payload |-> ""]

Init ==
  /\ middlewares \in Setups
  /\ registered = middlewares
  /\ visited = {}
  /\ issued = NoRequest
  /\ calls = [c \in Callers |-> Idle]
  /\ ncalls = 0
  /\ nuse = 0
  /\ last = NoRun
  /\ http = [c \in Callers |-> NoResponse]

(* --------------------------- Procedure.call --------------------------- *)

\* a pipeline that composes and starts the chain before looking at the input
ProcedureCallUnparsed(base, p, raw, m) ==
  [base EXCEPT !.st = "running", !.proc = p, !.input = raw,
     !.chain = m[p], !.pos = 1]

\* const parsedInput = this.inputSchema.parse(input);
\* const composed = this.middlewares.reduceRight(...)
ProcedureCall(base, p, raw, m) ==
  IF ~InputAccepts(raw)
  THEN [base EXCEPT !.st = "rejected", !.proc = p, !.err = ZodError("input")]
  ELSE [base EXCEPT !.st = "running", !.proc = p, !.input = InputParse(raw),
          !.chain = m[p], !.pos = 1]

\* a chain that reads the procedure's stored list each time it moves on
ChainRead(k) == middlewares[k.proc]

\* the chain composed() runs: the closures reduceRight built over the list
\* the procedure held when Procedure.call began
ChainOf(k) == k.chain

\* a dispatcher that keeps the context of the first caller for every call
CtxShared(c) == calls["c1"].ctx

\* the ctx the closures of a call hand to its middleware and handler
CtxFor(c) == calls[c].ctx

\* res.setHeader / res.status on the sink the caller supplied: a plain sink
\* takes every call; the server's responseWrapper forwards to node:http
SinkCall(k, op) ==
  IF op = "none" THEN [k |-> k, threw |-> FALSE]
  ELSE IF k.sink = "plain"
  THEN [k |-> [k EXCEPT !.used = TRUE], threw |-> FALSE]
  ELSE IF k.head
  THEN [k |-> [k EXCEPT !.used = TRUE], threw |-> TRUE]
  ELSE [k |-> [k EXCEPT !.used = TRUE, !.head = (op = "status")],
        threw |-> FALSE]

\* a chain whose next element runs although the middleware returned
\* without calling next()
MwOutcomeFallThrough(k, mw, ctx) ==
  LET k1 == [k EXCEPT !.log = Append(@, mw), !.ctxlog = Append(@, ctx)]
      s  == SinkCall(k1, MwSink[mw])
      k2 == [s.k EXCEPT !.ctx =
               IF mw \in CtxWriters THEN @ \cup {<<mw, k.who>>} ELSE @]
  IN  IF s.threw THEN [s.k EXCEPT !.st = "threw", !.err = HeadersSent]
      ELSE CASE MwKind[mw] = "pass"  -> [k2 EXCEPT !.pos = @ + 1]
             [] MwKind[mw] = "short" ->
                  [k2 EXCEPT !.pos = @ + 1, !.ret = MwReturn[mw]]
             [] MwKind[mw] = "throw" ->
                  [k2 EXCEPT !.st = "threw", !.err = MwError[mw]]

\* a chain one of whose middleware awaits something that never settles:
\* it neither calls next() nor returns
MwOutcomeHangs(k, mw, ctx) ==
  [k EXCEPT !.log = Append(@, mw), !.ctxlog = Append(@, ctx),
     !.st = "pending"]

\* () => middleware(ctx, parsedInput, res, next)
MwOutcome(k, mw, ctx) ==
  LET k1 == [k EXCEPT !.log = Append(@, mw), !.ctxlog = Append(@, ctx)]
      s  == SinkCall(k1, MwSink[mw])
      k2 == [s.k EXCEPT !.ctx =
               IF mw \in CtxWriters THEN @ \cup {<<mw, k.who>>} ELSE @]
  IN  IF s.threw THEN [s.k EXCEPT !.st = "threw", !.err = HeadersSent]
      ELSE CASE MwKind[mw] = "pass"  -> [k2 EXCEPT !.pos = @ + 1]
             [] MwKind[mw] = "short" ->
                  [k2 EXCEPT !.st = "returned", !.ret = MwReturn[mw]]
             [] MwKind[mw] = "throw" ->
                  [k2 EXCEPT !.st = "threw", !.err = MwError[mw]]

\* a pipeline that hands the handler the raw input, not the parsed one
HandlerOutcomeRawInput(k, ctx) ==
  LET k1 == [k EXCEPT !.log = Append(@, "handler"),
               !.ctxlog = Append(@, ctx)]
      s  == SinkCall(k1, HandlerSink(k.proc, k.raw))
  IN  IF s.threw THEN [s.k EXCEPT !.st = "threw", !.err = HeadersSent]
      ELSE IF HandlerThrows(k.proc, k.raw)
      THEN [s.k EXCEPT !.st = "threw", !.err = HandlerError(k.proc, k.raw)]
      ELSE [s.k EXCEPT !.st = "returned",
              !.ret = HandlerReturn(k.proc, k.raw)]

\* () => Promise.resolve(this.handler(ctx, parsedInput, res))
HandlerOutcome(k, ctx) ==
  LET k1 == [k EXCEPT !.log = Append(@, "handler"),
               !.ctxlog = Append(@, ctx)]
      s  == SinkCall(k1, HandlerSink(k.proc, k.input))
  IN  IF s.threw THEN [s.k EXCEPT !.st = "threw", !.err = HeadersSent]
      ELSE IF HandlerThrows(k.proc, k.input)
      THEN [s.k EXCEPT !.st = "threw",
              !.err = HandlerError(k.proc, k.input)]
      ELSE [s.k EXCEPT !.st = "returned",
              !.ret = HandlerReturn(k.proc, k.input)]

\* a pipeline that returns the chain's result without the output parse
SettleUnparsed(k) ==
  IF k.st = "threw" THEN [k EXCEPT !.st = "rejected"]
  ELSE [k EXCEPT !.st = "resolved", !.value = k.ret]

\* a pipeline that catches what the chain throws and rethrows a generic error
SettleConverting(k) ==
  IF k.st = "threw"
  THEN [k EXCEPT !.st = "rejected",
          !.err = RPCError(500, "Internal server error", NoPath, "none")]
  ELSE IF OutputAccepts(k.ret)
  THEN [k EXCEPT !.st = "resolved", !.value = OutputParse(k.ret)]
  ELSE [k EXCEPT !.st = "rejected", !.err = ZodError("output")]

\* const result = await composed(); return this.outputSchema.parse(result)
Settle(k) ==
  IF k.st = "threw" THEN [k EXCEPT !.st = "rejected"]
  ELSE IF OutputAccepts(k.ret)
  THEN [k EXCEPT !.st = "resolved", !.value = OutputParse(k.ret)]
  ELSE [k EXCEPT !.st = "rejected", !.err = ZodError("output")]

\* the middleware invocations of a call
Invocations(k) == Len(SelectSeq(k.log, LAMBDA x : x # "handler"))

\* what the call k, now over, ran
Finished(k) ==
  [proc |-> k.proc, ran |-> Invocations(k),
   whole |-> (k.log # <<>> /\ k.log[Len(k.log)] = "handler")]

(* ------------------------------ actions ------------------------------- *)

\* Router.use
Use(r, mw) ==
  /\ nuse < MaxUse
  /\ middlewares' = [middlewares EXCEPT ![r] = Append(@, mw)]
  /\ registered' = [registered EXCEPT ![r] = Append(@, mw)]
  /\ nuse' = nuse + 1
  /\ UNCHANGED <<visited, issued, calls, ncalls, last, http>>

\* Router.call up to the first suspension, with the response sink the
\* caller hands it: the descent through the tree, then Procedure.call's
\* input parse and the composition of the chain
DispatchVia(c, entry, path, raw, sink) ==
  /\ calls[c].st = "idle"
  /\ ncalls < MaxCalls
  /\ LET parts == Parts(path)
         d     == RouterCall(entry, parts, middlewares, {})
         same  == issued \in {NoRequest, <<entry, parts>>}
         base  == [Idle EXCEPT !.who = c, !.entry = entry, !.path = parts,
                     !.form = path.form, !.sink = sink, !.raw = raw,
                     !.ctx = {<<"caller", c>>},
                     !.expected = PathChain(entry, parts, registered),
                     !.fresh = (d.seen \cap visited = {}),
                     !.outer = middlewares[entry],
                     !.nth = IF same THEN ncalls + 1 ELSE 0]
     IN  /\ middlewares' = d.mws
         /\ visited' = visited \cup d.seen
         /\ issued' = IF same THEN <<entry, parts>> ELSE Mixed
         /\ calls' = [calls EXCEPT ![c] =
              IF d.proc = "none"
              THEN [base EXCEPT !.st = "rejected", !.err = d.err]
              ELSE ProcedureCall(base, d.proc, raw, d.mws)]
  /\ ncalls' = ncalls + 1
  /\ UNCHANGED <<registered, nuse, last>>

\* Router.call from a caller that supplies a sink of its own
Dispatch(c, entry, path, raw) ==
  /\ DispatchVia(c, entry, path, raw, "plain")
  /\ UNCHANGED http

\* one middleware of the composed chain runs
MiddlewareStep(c) ==
  LET k == calls[c]
  IN  /\ k.st = "running"
      /\ k.pos <= Len(ChainOf(k))
      /\ calls' = [calls EXCEPT ![c] =
                     MwOutcome(k, ChainOf(k)[k.pos], CtxFor(c))]
      /\ UNCHANGED <<middlewares, registered, visited, issued, ncalls, nuse,
                     last, http>>

\* the innermost next() runs the handler
HandlerStep(c) ==
  LET k == calls[c]
  IN  /\ k.st = "running"
      /\ k.pos = Len(ChainOf(k)) + 1
      /\ calls' = [calls EXCEPT ![c] = HandlerOutcome(k, CtxFor(c))]
      /\ UNCHANGED <<middlewares, registered, visited, issued, ncalls, nuse,
                     last, http>>

Finish(c) ==
  /\ calls[c].st \in {"returned", "threw"}
  /\ calls' = [calls EXCEPT ![c] = Settle(calls[c])]
  /\ UNCHANGED <<middlewares, registered, visited, issued, ncalls, nuse,
                 last, http>>

\* the caller's await takes the settled promise
Collect(c) ==
  /\ calls[c].st \in {"resolved", "rejected"}
  /\ calls[c].sink = "plain"
  /\ calls' = [calls EXCEPT ![c] = Idle]
  /\ UNCHANGED <<middlewares, registered, visited, issued, ncalls, nuse,
                 last, http>>

\* the caller's await takes the settled promise, and the caller keeps
\* count of what the call ran
Note(c) ==
  /\ calls[c].st \in {"resolved", "rejected"}
  /\ calls[c].sink = "plain"
  /\ calls' = [calls EXCEPT ![c] = Idle]
  /\ last' = Finished(calls[c])
  /\ UNCHANGED <<middlewares, registered, visited, issued, ncalls, nuse,
                 http>>

Next ==
  \/ \E r \in Routers : \E mw \in Usable[r] : Use(r, mw)
  \/ \E c \in Sequential : \E q \in Requests : \E raw \in RawInputs :
       Dispatch(c, q[1], ArrayPath(q[2]), raw)
  \/ \E c \in Sequential : MiddlewareStep(c)
  \/ \E c \in Sequential : HandlerStep(c)
  \/ \E c \in Sequential : Finish(c)
  \/ \E c \in Sequential : Collect(c)

Spec == Init /\ [][Next]_vars


(* ------------------------- concurrent callers ------------------------- *)

\* the requests of a host whose callers have calls in flight together
ConcRequests ==
  { <<"api", <<"v1", "users", "get">>>>,
    <<"api", <<"admin", "get">>>>,
    <<"api", <<"echo">>>> }

ConcInputs == {"hello"}

\* every caller awaits a call of its own; calls interleave at each await
NextConc ==
  \/ \E r \in Routers : \E mw \in Usable[r] : Use(r, mw)
  \/ \E c \in Callers : \E q \in ConcRequests : \E raw \in ConcInputs :
       Dispatch(c, q[1], ArrayPath(q[2]), raw)
  \/ \E c \in Callers : MiddlewareStep(c)
  \/ \E c \in Callers : HandlerStep(c)
  \/ \E c \in Callers : Finish(c)
  \/ \E c \in Callers : Collect(c)

SpecConc == Init /\ [][NextConc]_vars

(* ------------------------------ the server ---------------------------- *)

Methods == {"POST", "GET"}

\* url.pathname of the requests: /rpc/v1/users/get, /rpc/admin/get,
\* /rpc/echo, /rpc/nope, /rpc/, /api/echo and /rpc
Urls ==
  { <<"/", "rpc", "/", "v1", "/", "users", "/", "get">>,
    <<"/", "rpc", "/", "admin", "/", "get">>,
    <<"/", "rpc", "/", "echo">>,
    <<"/", "rpc", "/", "nope">>,
    <<"/", "rpc", "/">>,
    <<"/", "api", "/", "echo">>,
    <<"/", "rpc">> }

\* the request bodies: {"input": ...} with each raw input, and a body that
\* is not JSON
Bodies == {"hello", "missing", "bad", "notjson"}

RpcPrefix == <<"/", "rpc", "/">>

\* String.prototype.startsWith
StartsWith(s, p) == Len(s) >= Len(p) /\ SubSeq(s, 1, Len(p)) = p

\* a server that routes every method
RoutableAnyMethod(method, url) == StartsWith(url, RpcPrefix)

\* the negation of the guard of line 23
Routable(method, url) == method = "POST" /\ StartsWith(url, RpcPrefix)

\* const [, , ...pathParts] = url.pathname.split("/"); pathParts.join(".")
UrlPath(url) ==
  LET segs == SplitOn(url, "/")
  IN  JoinWith(SubSeq(segs, 3, Len(segs)), ".")

\* err instanceof RPCError ? err : new RPCError(500, "Internal server error")
HttpError(err) ==
  IF err.kind = "RPCError" THEN err
  ELSE RPCError(500, "Internal server error", NoPath, "none")

\* the catch block: res.writeHead(httpErr.code, ...) and res.end(...);
\* writeHead throws when the head was written before (res.status), and the
\* request callback ends there with the response left open
Caught(r, err, head) ==
  IF head
  THEN [r EXCEPT !.stage = "failed", !.cause = err]
  ELSE LET e == HttpError(err)
       IN  [r EXCEPT !.stage = "done", !.cause = err, !.ended = TRUE,
              !.status = e.code, !.kind = "error", !.code = e.code,
              !.message = e.message,
              !.payload = IF e.payload = "none" THEN "null" ELSE e.payload]

\* lines 47-49 once router.call has settled: on success
\* res.setHeader("Content-Type", ...) and res.end({result}); setHeader
\* throws when the head was written before, which lands in the catch block
ServerResponse(r, k) ==
  LET r1 == [r EXCEPT !.outcome = k.st]
  IN  IF k.st = "rejected" THEN Caught(r1, k.err, k.head)
      ELSE IF k.head THEN Caught(r1, HeadersSent, k.head)
      ELSE [r1 EXCEPT !.stage = "done", !.ended = TRUE, !.status = 200,
              !.kind = "result", !.value = k.value]

\* lines 23-27: the request is refused
Refuse(c, method, url) ==
  /\ calls[c].st = "idle"
  /\ ncalls < MaxCalls
  /\ ~Routable(method, url)
  /\ http' = [http EXCEPT ![c] =
       [NoResponse EXCEPT !.stage = "done", !.method = method, !.url = url,
          !.ended = TRUE, !.status = 404, !.kind = "error", !.code = 404,
          !.message = "Not Found", !.payload = "absent"]]
  /\ ncalls' = ncalls + 1
  /\ UNCHANGED <<middlewares, registered, visited, issued, calls, nuse, last>>

\* lines 29-47: the body is read and parsed, and router.call is entered
\* with the dotted path and the responseWrapper
Receive(c, method, url, body) ==
  LET r == [NoResponse EXCEPT !.method = method, !.url = url]
  IN  /\ Routable(method, url)
      /\ IF body = "notjson"
         THEN /\ calls[c].st = "idle"
              /\ ncalls < MaxCalls
              /\ ncalls' = ncalls + 1
              /\ http' = [http EXCEPT ![c] =
                   Caught(r, [HeadersSent EXCEPT !.message = "SyntaxError"],
                          FALSE)]
              /\ UNCHANGED <<middlewares, registered, visited, issued, calls,
                             nuse, last>>
         ELSE /\ DispatchVia(c, "api", StringPath(UrlPath(url)), body, "http")
              /\ http' = [http EXCEPT ![c] =
                   [r EXCEPT !.stage = "awaiting", !.dispatched = TRUE]]

\* the await of line 47 resumes: the response is written
Respond(c) ==
  /\ calls[c].st \in {"resolved", "rejected"}
  /\ calls[c].sink = "http"
  /\ http' = [http EXCEPT ![c] = ServerResponse(http[c], calls[c])]
  /\ calls' = [calls EXCEPT ![c] = Idle]
  /\ UNCHANGED <<middlewares, registered, visited, issued, ncalls, nuse, last>>

NextServer ==
  \/ \E c \in Callers : \E m \in Methods : \E u \in Urls : Refuse(c, m, u)
  \/ \E c \in Callers : \E m \in Methods : \E u \in Urls : \E b \in Bodies :
       Receive(c, m, u, b)
  \/ \E c \in Callers : MiddlewareStep(c)
  \/ \E c \in Callers : HandlerStep(c)
  \/ \E c \in Callers : Finish(c)
  \/ \E c \in Callers : Respond(c)

SpecServer == Init /\ [][NextServer]_vars

(* --------------------------- repeated calls --------------------------- *)

\* the requests of a host that repeats its calls and counts what each ran
RepeatRequests ==
  { <<"api", <<"v1", "users", "get">>>>,
    <<"api", <<"admin", "get">>>>,
    <<"api", <<"echo">>>>,
    <<"api", <<"echo", "get">>>>,
    <<"api", <<"v1", "nope">>>>,
    <<"users", <<"get">>>> }

NextRepeat ==
  \/ \E r \in Routers : \E mw \in Usable[r] : Use(r, mw)
  \/ \E c \in Sequential : \E q \in RepeatRequests : \E raw \in RawInputs :
       Dispatch(c, q[1], ArrayPath(q[2]), raw)
  \/ \E c \in Sequential : MiddlewareStep(c)
  \/ \E c \in Sequential : HandlerStep(c)
  \/ \E c \in Sequential : Finish(c)
  \/ \E c \in Sequential : Note(c)

SpecRepeat == Init /\ [][NextRepeat]_vars

(* --------------------------- both path forms ------------------------- *)

\* the pre-split requests of a host that also dispatches with strings
PathRequests ==
  { <<"api", <<"v1", "users", "get">>>>,
    <<"api", <<"echo">>>>,
    <<"api", <<"echo", "get">>>>,
    <<"api", <<"v1", "nope">>>> }

PathInputs == {"hello", "bad"}

NextPaths ==
  \/ \E r \in Routers : \E mw \in Usable[r] : Use(r, mw)
  \/ \E c \in Sequential : \E q \in PathRequests : \E raw \in PathInputs :
       Dispatch(c, q[1], ArrayPath(q[2]), raw)
  \/ \E c \in Sequential : \E q \in StringRequests : \E raw \in PathInputs :
       Dispatch(c, q[1], StringPath(q[2]), raw)
  \/ \E c \in Sequential : MiddlewareStep(c)
  \/ \E c \in Sequential : HandlerStep(c)
  \/ \E c \in Sequential : Finish(c)
  \/ \E c \in Sequential : Collect(c)

SpecPaths == Init /\ [][NextPaths]_vars

(* ------------------------------ progress ----------------------------- *)

\* the requests of the caller whose calls are followed to their end, while
\* another caller keeps calling echo through the same root router
LiveRequests ==
  { <<"api", <<"v1", "users", "get">>>>,
    <<"api", <<"v1", "nope">>>> }

LiveInputs == {"hello"}

NextLive ==
  \/ \E r \in Routers : \E mw \in Usable[r] : Use(r, mw)
  \/ \E c \in Sequential : \E q \in LiveRequests : \E raw \in LiveInputs :
       Dispatch(c, q[1], ArrayPath(q[2]), raw)
  \/ \E c \in Callers \ Sequential :
       Dispatch(c, "api", ArrayPath(<<"echo">>), "hello")
  \/ \E c \in Callers : MiddlewareStep(c)
  \/ \E c \in Callers : HandlerStep(c)
  \/ \E c \in Callers : Finish(c)
  \/ \E c \in Callers : Collect(c)

\* Every middleware and the handler return, and the runtime runs a settled
\* promise's continuation: a call that can take its next step takes it.
Progress ==
  \A c \in Callers :
    /\ WF_vars(MiddlewareStep(c))
    /\ WF_vars(HandlerStep(c))
    /\ WF_vars(Finish(c))

SpecLive == Init /\ [][NextLive]_vars /\ Progress

(* ------------------------------ properties ---------------------------- *)

IsPrefix(s, t) == Len(s) <= Len(t) /\ SubSeq(t, 1, Len(s)) = s

Range(s) == {s[i] : i \in DOMAIN s}

Last(s) == s[Len(s)]

\* the invocations of a call that runs its whole path: the registered
\* middleware, outer to inner, then the handler
Full(k) == Append(k.expected, "handler")

Settled(k) == k.st \in {"resolved", "rejected"}

\* the chain of the call has ended (returned or thrown)
Ended(k) == k.st \in {"returned", "threw", "resolved", "rejected"}

AllPass(s) == \A i \in DOMAIN s : MwKind[s[i]] = "pass"

\* the routers a procedure is attached under
Parents(p) ==
  {r \in Routers : \E seg \in DOMAIN routes[r] : routes[r][seg] = p}

\* walking own routes only: some traversed level has no entry for its
\* first segment
RECURSIVE Unrouted(_, _)
Unrouted(r, parts) ==
  IF parts = <<>> \/ Head(parts) \notin DOMAIN routes[r] THEN TRUE
  ELSE LET t == routes[r][Head(parts)]
       IN  IF t \in Procs THEN FALSE ELSE Unrouted(t, Tail(parts))

\* walking own routes only: the path reaches a procedure and goes on
RECURSIVE Residual(_, _)
Residual(r, parts) ==
  IF parts = <<>> \/ Head(parts) \notin DOMAIN routes[r] THEN FALSE
  ELSE LET t == routes[r][Head(parts)]
       IN  IF t \in Procs THEN Tail(parts) # <<>>
           ELSE Residual(t, Tail(parts))

\* C1: when the same dispatch is issued N times in a row (nth = 1..N, no
\* other dispatch before it), each of the N calls invokes the middleware
\* registered along its path once each, outer to inner, then the handler:
\* its invocations are an initial part of that sequence.
RepeatedCallRunsEachOnce ==
  \A c \in Callers :
    calls[c].nth >= 1 => IsPrefix(calls[c].log, Full(calls[c]))

\* C2: the stored middleware list of every node equals what construction
\* and use() put there: no Router.call changes a stored list.
StoredListsAreRegistered == middlewares = registered

\* C3: a call through nodes no earlier call has passed invokes the outer
\* router's middleware, then each nested router's, then the procedure's
\* own, each in registration order and once, then the handler.
FirstCallOrder ==
  \A c \in Callers :
    LET k == calls[c]
    IN  (k.fresh /\ k.proc # "none") =>
          /\ IsPrefix(k.log, Full(k))
          /\ (k.input # "none" => k.chain = k.expected)
          /\ (Ended(k) /\ k.input # "none" /\ AllPass(k.expected)
                => k.log = Full(k))

FirstCallThreeLevels ==
  \E c \in Callers :
    /\ calls[c].fresh
    /\ calls[c].entry = "api"
    /\ calls[c].path = <<"v1", "users", "get">>
    /\ calls[c].log = <<"A", "B", "C", "D", "handler">>

\* C4: a call that reaches a procedure through one parent router never
\* invokes a middleware registered on another parent of that procedure
\* and on no node of the call's own path.
SharedProcedureKeepsToItsPath ==
  \A c \in Callers :
    LET k == calls[c]
    IN  (k.st # "idle" /\ k.proc # "none") =>
          \A y \in Parents(k.proc) \ Range(PathNodes(k.entry, k.path)) :
            \A i \in DOMAIN k.log :
              k.log[i] \in Range(registered[y])
                => k.log[i] \in Range(k.expected)

\* nothing is invoked after a middleware of the given kind
NothingAfter(k, kind) ==
  \A i \in DOMAIN k.log :
    (k.log[i] # "handler" /\ MwKind[k.log[i]] = kind) => i = Len(k.log)

EndsWith(k, kind) ==
  /\ k.log # <<>>
  /\ Last(k.log) # "handler"
  /\ MwKind[Last(k.log)] = kind

\* C5 as claimed: after a middleware returns without calling next(),
\* nothing further inward runs and the call resolves to the very value
\* that middleware returned.
ShortCircuitResolvesToOwnValue ==
  \A c \in Callers :
    LET k == calls[c]
    IN  /\ NothingAfter(k, "short")
        /\ (Settled(k) /\ EndsWith(k, "short")) =>
              (k.st = "resolved" /\ k.value = MwReturn[Last(k.log)])

\* C5 as amended: after a middleware returns without calling next(),
\* nothing further inward runs, the chain's result is that middleware's
\* return value, and the call resolves to that value as parsed by the
\* output schema, or rejects with the validation failure when the value
\* does not conform.
ShortCircuitResultIsParsed ==
  \A c \in Callers :
    LET k == calls[c]
    IN  /\ NothingAfter(k, "short")
        /\ EndsWith(k, "short") =>
              /\ k.st # "running"
              /\ k.ret = MwReturn[Last(k.log)]
              /\ k.st = "resolved" => k.value = OutputParse(k.ret)
              /\ k.st = "rejected" => k.err = ZodError("output")
              /\ Settled(k) => (k.st = "resolved" <=> OutputAccepts(k.ret))

ShortCircuitSettled ==
  \E c \in Callers :
    /\ calls[c].st = "resolved"
    /\ calls[c].value = "cached"
    /\ EndsWith(calls[c], "short")
    /\ Len(calls[c].log) < Len(calls[c].chain)

\* C6: when a middleware throws an RPCError before next(), the call
\* rejects with that error, code, message and payload unchanged, and
\* nothing further inward, the handler included, is invoked.
MiddlewareErrorRejects ==
  \A c \in Callers :
    LET k == calls[c]
    IN  /\ NothingAfter(k, "throw")
        /\ EndsWith(k, "throw") =>
              /\ k.st \in {"threw", "rejected"}
              /\ k.err = MwError[Last(k.log)]

MiddlewareErrorRejected ==
  \E c \in Callers :
    /\ calls[c].st = "rejected"
    /\ EndsWith(calls[c], "throw")
    /\ calls[c].err.code = 401
    /\ calls[c].err.message = "Authentication required"
    /\ Len(calls[c].chain) > Len(calls[c].log)

\* C7: when the input is accepted by the input schema and the handler
\* returns a value the output schema accepts, the call resolves to the
\* output schema's parse of that value (echo of "hello": "Echo: hello").
ValidCallResolves ==
  \A c \in Callers :
    LET k == calls[c]
        v == HandlerReturn(k.proc, InputParse(k.raw))
    IN  (/\ Settled(k)
         /\ k.log # <<>>
         /\ Last(k.log) = "handler"
         /\ InputAccepts(k.raw)
         /\ ~HandlerThrows(k.proc, InputParse(k.raw))
         /\ OutputAccepts(v)) =>
          /\ k.st = "resolved"
          /\ k.value = OutputParse(v)
          /\ (k.proc = "echo" /\ k.raw \in {"hello", "hello+extra"})
               => k.value = "Echo: hello"

EchoResolved ==
  \E c \in Callers :
    /\ calls[c].st = "resolved"
    /\ calls[c].proc = "echo"
    /\ calls[c].raw = "hello+extra"
    /\ calls[c].value = "Echo: hello"

\* C8: a call whose path, at some traversed router, names a segment that
\* router's routes have no entry for rejects with an RPCError of code 404.
UnroutedIs404 ==
  \A c \in Callers :
    LET k == calls[c]
    IN  (k.st # "idle" /\ Unrouted(k.entry, k.path)) =>
          /\ k.st = "rejected"
          /\ k.err.kind = "RPCError"
          /\ k.err.code = 404

\* C9: a call whose path reaches a procedure and has segments left rejects
\* with an RPCError of code 400, and that procedure's pipeline never
\* starts: no input parse, no middleware, no handler.
ResidualIs400 ==
  \A c \in Callers :
    LET k == calls[c]
    IN  (k.st # "idle" /\ Residual(k.entry, k.path)) =>
          /\ k.st = "rejected"
          /\ k.err.kind = "RPCError"
          /\ k.err.code = 400
          /\ k.proc = "none"
          /\ k.input = "none"
          /\ k.log = <<>>

ResidualRejected ==
  \E c \in Callers :
    /\ calls[c].st = "rejected"
    /\ calls[c].path = <<"echo", "get">>
    /\ calls[c].err.code = 400
    /\ calls[c].raw = "hello"

\* C10: what the chain returns always goes through the output schema: a
\* resolved call holds the parse of a conforming result, and a call whose
\* chain returned a nonconforming result is rejected with the validation
\* failure.
OutputIsAlwaysParsed ==
  \A c \in Callers :
    LET k == calls[c]
    IN  /\ k.st = "resolved" =>
              (k.ret \notin {"none", "malformed"}
                 /\ k.value = OutputParse(k.ret))
        /\ (Settled(k) /\ k.ret = "malformed") =>
              (k.st = "rejected" /\ k.err = ZodError("output"))

NonconformingRejected ==
  \E c \in Callers :
    /\ calls[c].st = "rejected"
    /\ calls[c].ret = "malformed"
    /\ calls[c].log # <<>>
    /\ Last(calls[c].log) = "handler"

\* C11: every failure reaches the caller of Router.call as it was raised:
\* a validation failure stays the schema's own error (never an RPCError),
\* what a middleware or the handler threw is the error of the call, and
\* the errors the dispatcher raises itself are RPCErrors of code 404 or 400.
FailuresReachCallerUnchanged ==
  \A c \in Callers :
    LET k == calls[c]
    IN  k.st = "rejected" =>
          /\ k.proc = "none" =>
               (k.err.kind = "RPCError" /\ k.err.code \in {404, 400})
          /\ (k.proc # "none" /\ ~InputAccepts(k.raw)) =>
               (k.err.kind = "ZodError" /\ k.err.message = "input")
          /\ EndsWith(k, "throw") => k.err = MwError[Last(k.log)]
          /\ (k.log # <<>> /\ Last(k.log) = "handler" /\ k.ret = "none") =>
               k.err = HandlerError(k.proc, k.input)
          /\ k.ret # "none" =>
               (k.err.kind = "ZodError" /\ k.err.message = "output")

InputFailureReachedCaller ==
  \E c \in Callers :
    /\ calls[c].st = "rejected"
    /\ calls[c].proc = "getUser"
    /\ calls[c].raw = "bad"
    /\ calls[c].err.kind = "ZodError"

\* C17: when the input schema rejects the raw input, the call rejects with
\* the schema's validation failure and invokes no middleware of any level
\* and not the handler.
InputParsedFirst ==
  \A c \in Callers :
    LET k == calls[c]
    IN  (k.st # "idle" /\ k.proc # "none" /\ ~InputAccepts(k.raw)) =>
          /\ k.st = "rejected"
          /\ k.err.kind = "ZodError"
          /\ k.err.message = "input"
          /\ k.log = <<>>
          /\ k.chain = <<>>

BadInputRejected ==
  \E c \in Callers :
    /\ calls[c].st = "rejected"
    /\ calls[c].raw = "bad"
    /\ calls[c].path = <<"v1", "users", "get">>
    /\ Len(calls[c].expected) = 4

\* C18: a call that rejects at dispatch (404, 400, or the input validation
\* failure) invokes nothing and leaves the stored middleware list of every
\* node as it was.
FailedCallLeavesTree ==
  [][\A c \in Callers :
       (calls[c].st = "idle" /\ calls'[c].st = "rejected") =>
         (middlewares' = middlewares /\ calls'[c].log = <<>>)]_vars

\* C19: from the same stored lists, a path given as a delimited string
\* and the same segments given as an array descend alike: the same nodes
\* passed, the same procedure reached or the same error, the same lists
\* left behind (and so the same chain).
PathFormsAgree ==
  \A q \in Requests \cup {<<"api", <<>>>>} :
    RouterCall(q[1], Parts(StringPath(Joined(q[2]))), middlewares, {})
      = RouterCall(q[1], Parts(ArrayPath(q[2])), middlewares, {})

StringPathRan ==
  \E c \in Callers :
    /\ calls[c].form = "string"
    /\ calls[c].path = <<"v1", "users", "get">>
    /\ calls[c].log = <<"A", "B", "C", "D", "handler">>

\* C12: the chain a call executes is the one composed when it was
\* dispatched: whatever use() registers and whatever other calls write into
\* the stored lists while the call is in flight, its invocations follow
\* that chain, each middleware once and in order, then the handler.
ChainFixedAtDispatch ==
  \A c \in Callers :
    LET k == calls[c]
    IN  (k.st # "idle" /\ k.proc # "none") =>
          /\ IsPrefix(k.log, Append(k.chain, "handler"))
          /\ k.st = "running" => Len(k.log) = k.pos - 1

ListChangedUnderRunningCall ==
  \E c \in Callers : \E o \in Callers \ {c} :
    /\ calls[c].st = "running"
    /\ calls[c].log # <<>>
    /\ middlewares[calls[c].proc] # calls[c].chain
    /\ calls[o].proc = calls[c].proc
    /\ nuse > 0

\* C13: every middleware and the handler of a call receive the context of
\* that call: the value its caller gave, with what the middleware further
\* out in the same call wrote to it, and nothing of any other call.
ContextIsPerCall ==
  \A c \in Callers :
    LET k == calls[c]
    IN  \A i \in DOMAIN k.ctxlog :
          k.ctxlog[i] =
            {<<"caller", c>>} \cup
            {<<k.log[j], c>> : j \in {l \in 1..(i - 1) : k.log[l] \in CtxWriters}}

ContextsInterleaved ==
  \E c \in Callers : \E o \in Callers \ {c} :
    /\ calls[c].st = "running"
    /\ calls[o].st = "running"
    /\ Len(calls[c].ctxlog) >= 2
    /\ Len(calls[o].ctxlog) >= 2
    /\ <<"A", c>> \in calls[c].ctxlog[2]
    /\ <<"A", o>> \in calls[o].ctxlog[2]

\* C14: when the dispatch of a request fails, the server answers with the
\* body {error: {code, message, payload}}: an RPCError with its own code,
\* message and payload, any other error as code 500 with the message
\* "Internal error".
TransportErrorBody ==
  \A c \in Callers :
    LET r == http[c]
    IN  (r.dispatched /\ r.outcome = "rejected") =>
          /\ r.ended
          /\ r.kind = "error"
          /\ r.cause.kind = "RPCError" =>
               /\ r.code = r.cause.code
               /\ r.message = r.cause.message
               /\ r.payload =
                    IF r.cause.payload = "none" THEN "null"
                    ELSE r.cause.payload
          /\ r.cause.kind # "RPCError" =>
               (r.code = 500 /\ r.message = "Internal error")

\* C15: a request whose method is not POST or whose path does not start
\* with /rpc/ is answered with an error of code 404, and its handling
\* enters no Router.call: no stored list, no call and no node is touched.
RefusedWithoutDispatch ==
  [][\A c \in Callers :
       (/\ http'[c] # http[c]
        /\ \/ http'[c].method # "POST"
           \/ ~StartsWith(http'[c].url, RpcPrefix)) =>
         /\ http'[c].ended
         /\ http'[c].kind = "error"
         /\ http'[c].status = 404
         /\ http'[c].code = 404
         /\ ~http'[c].dispatched
         /\ middlewares' = middlewares
         /\ visited' = visited
         /\ calls' = calls]_vars

GetRefused ==
  \E c \in Callers :
    /\ http[c].stage = "done"
    /\ http[c].method = "GET"
    /\ http[c].url = <<"/", "rpc", "/", "echo">>
    /\ http[c].code = 404
    /\ calls[c].st = "idle"

\* C20: a request whose dispatch resolved is answered with one response
\* whose body is {result: value}, whatever the middleware and the handler
\* did with the response sink.
SinkLeavesControlFlow ==
  \A c \in Callers :
    LET r == http[c]
    IN  (r.dispatched /\ r.outcome = "resolved") =>
          (r.ended /\ r.kind = "result")

\* the step in which caller c enters Router.call
Enters(c) == calls[c].st = "idle" /\ calls'[c].st # "idle"

\* the step in which caller c takes the outcome of its call
Leaves(c) == calls[c].st \in {"resolved", "rejected"} /\ calls'[c].st = "idle"

\* C16: every dispatch writes the parent's list into the matched child:
\* for each router R the call passes and the child C its segment names,
\* C's list afterwards is R's list followed by C's previous list, longer
\* than before when R has middleware; and a call repeated from a router
\* with middleware executes more middleware invocations than the one
\* before it.
DispatchGrowsLists ==
  [][\A c \in Callers :
       /\ Enters(c) =>
            LET k  == calls'[c]
                ns == PathNodes(k.entry, k.path)
            IN  \A i \in 1..(Len(ns) - 1) :
                  /\ middlewares'[ns[i + 1]] =
                       middlewares'[ns[i]] \o middlewares[ns[i + 1]]
                  /\ middlewares'[ns[i]] # <<>> =>
                       Len(middlewares'[ns[i + 1]]) > Len(middlewares[ns[i + 1]])
       /\ (/\ Leaves(c)
           /\ calls[c].nth >= 2
           /\ calls[c].outer # <<>>
           /\ Len(PathNodes(calls[c].entry, calls[c].path)) >= 2) =>
            last'.ran > last.ran]_vars

\* C16, amended: the write happens where the dispatcher merges, at a child
\* router and at a procedure named by the last segment; and of two
\* successive calls that both ran their chain through to the handler, the
\* later one executes more middleware invocations.
DispatchGrowsMergedLists ==
  [][\A c \in Callers :
       /\ Enters(c) =>
            LET k  == calls'[c]
                ns == PathNodes(k.entry, k.path)
            IN  \A i \in 1..(Len(ns) - 1) :
                  (ns[i + 1] \in Routers \/ Len(k.path) = i) =>
                    /\ middlewares'[ns[i + 1]] =
                         middlewares'[ns[i]] \o middlewares[ns[i + 1]]
                    /\ middlewares'[ns[i]] # <<>> =>
                         Len(middlewares'[ns[i + 1]]) >
                           Len(middlewares[ns[i + 1]])
       /\ (/\ Leaves(c)
           /\ calls[c].nth >= 2
           /\ calls[c].outer # <<>>
           /\ last.whole
           /\ last'.whole) =>
            last'.ran > last.ran]_vars

SecondCallRanMore ==
  /\ issued = <<"api", <<"v1", "users", "get">>>>
  /\ ncalls = 2
  /\ \A c \in Callers : calls[c].st = "idle"
  /\ last.whole
  /\ last.ran = 10
  /\ Len(middlewares["getUser"]) = 10

\* C21: every Router.call runs to completion.  The descent takes one
\* segment per router level and ends in a procedure's pipeline or in an
\* RPCError; and, every middleware and the handler returning, a call that
\* was entered eventually resolves or rejects.
CallRunsToCompletion ==
  \A c \in Callers :
    /\ [](calls[c].st # "idle" =>
           \/ /\ calls[c].proc # "none"
              /\ Len(PathNodes(calls[c].entry, calls[c].path))
                   = Len(calls[c].path) + 1
           \/ /\ calls[c].st = "rejected"
              /\ calls[c].err.kind = "RPCError"
              /\ Len(PathNodes(calls[c].entry, calls[c].path))
                   <= Len(calls[c].path) + 1)
    /\ (calls[c].st # "idle") ~> (calls[c].st \in {"resolved", "rejected"})

LongChainCompleted ==
  \E c \in Callers : \E o \in Callers \ {c} :
    /\ calls[c].st = "resolved"
    /\ Len(calls[c].log) >= 5
    /\ calls[o].st = "running"

====
